---------------------------- MODULE Spec2Model ----------------------------
(***************************************************************************)
(* A model of src/src/core.py of jermaine-clarke/lindenmayer: Symbol,      *)
(* Alphabet, _character_node, _SymbolNode, String, _StringIterator and     *)
(* LSystem.                                                                *)
(*                                                                         *)
(* Objects are referred to by small integers (Python references); the      *)
(* reference None is 0.  Every call made by the client is one action; the  *)
(* call, the exception it raised ("none" when it returned) and the value   *)
(* it returned are recorded in call, err and ret.                          *)
(***************************************************************************)
EXTENDS Integers, Sequences, FiniteSets, TLC

\* ------------------------------------------------------------------ bounds
MaxInit == 1    \* longest symbol list handed to Alphabet(symbols)
MaxLen == 2     \* longest chain of the String 1 supplied as a pre-state
MaxOther == 1   \* longest chain of the String 2 supplied as a pre-state
MaxIters == 3   \* largest generations cap handed to LSystem.iterate
MaxNodes == 3   \* number of _SymbolNodes supplied to the node methods

\* ------------------------------------------------------- values and objects
None == 0
AlphIds == 1..2
StrIds == 1..2
NodeIds == 1..(MaxLen + MaxOther)
LinkIds == 1..MaxNodes

Glyphs == {"a", "b"}
LongNames == {"xx"}
\* what a client may pass where a glyph or a name is expected
Keys == Glyphs \cup LongNames \cup {"c", ""}

\* Symbol.__init__: a symbol is its glyph and its name; where the argument
\* specification matters (the node constructors) it is given beside it.
Symbol(glyph, name) == [glyph |-> glyph, name |-> name]
SymbolPool == {Symbol(g, n) : g \in Glyphs, n \in LongNames} \cup
              {Symbol(g, g) : g \in Glyphs}
NoSymbol == [glyph |-> "", name |-> ""]

\* Symbol.__eq__ / __hash__: two symbols are equal iff their glyphs are.
SymbolEq(s, t) == s.glyph = t.glyph

VARIABLES
    alph,            \* Alphabet._symbols of every Alphabet object
    finaliseCalled,  \* history: finalise() has been called on the Alphabet
    str,             \* the fields of every String object
    node,            \* the fields of every _SymbolNode object
    iter,            \* the fields of the _StringIterator object
    yielded,         \* history: the nodes the iterator has returned
    lsys,            \* the fields of the LSystem object
    procCalls,       \* history: the symbol procedures invoked, in order
    result,          \* the Alphabet returned by the last &, | or -
    built,           \* the fields of the Symbol object constructed last
    call, err, ret   \* the last call, what it raised, what it returned

vars == <<alph, finaliseCalled, str, node, iter, yielded, lsys, procCalls,
          result, built, call, err, ret>>

\* -------------------------------------------------------------- Alphabet

\* set.add on a set of Symbols: an element equal to one already held (same
\* glyph) is not added, the one held stays.
SetAdd(S, sym) == IF \E t \in S : SymbolEq(t, sym) THEN S ELSE S \cup {sym}

\* set membership of a Symbol: by __hash__/__eq__, that is by glyph.
SetHas(S, sym) == \E t \in S : SymbolEq(t, sym)

\* Alphabet.__init__(symbols): sym.add(s) for each s in order.
RECURSIVE AlphabetInit(_)
AlphabetInit(symbols) ==
    IF symbols = <<>> THEN {}
    ELSE SetAdd(AlphabetInit(SubSeq(symbols, 1, Len(symbols) - 1)),
                symbols[Len(symbols)])

\* Alphabet.add: builds the Symbol when given a glyph (name defaults to the
\* glyph), then self._symbols.add(symbol).  It tests neither the names in
\* use nor any finalised flag, and raises nothing.
AddName(glyph, name) == IF name = "" THEN glyph ELSE name
AlphabetAdd(S, symbol) == SetAdd(S, symbol)

\* a lookup by glyph whatever the length of the key
DropMatchesByGlyph(S, key) == {t \in S : t.glyph = key}

\* Alphabet.drop: the symbols the loop can meet first; by name when the key
\* is longer than one character, else by glyph (the empty key included).
DropMatches(S, key) ==
    IF Len(key) > 1 THEN {t \in S : t.name = key}
    ELSE {t \in S : t.glyph = key}

\* Alphabet.get: by glyph for one character, by name for more.
GetMatches(S, key) ==
    IF Len(key) = 1 THEN {t \in S : t.glyph = key}
    ELSE {t \in S : t.name = key}
GetErr(S, key) ==
    IF Len(key) = 0 THEN "ValueError"
    ELSE IF GetMatches(S, key) = {} THEN "KeyError" ELSE "none"

\* a membership test by glyph whatever the length of the key
ContainsByGlyph(S, key) == \E s \in S : s.glyph = key

\* Alphabet.__contains__(item) with item a str: by glyph for one character,
\* by name for more, ValueError for the empty string.
ContainsStr(S, key) ==
    IF Len(key) = 1 THEN \E s \in S : s.glyph = key
    ELSE \E s \in S : s.name = key
ContainsErr(key) == IF Len(key) = 0 THEN "ValueError" ELSE "none"

\* Alphabet.__le__: subset test of the symbol sets, by glyph.
AlphabetLe(S, T) == \A s \in S : SetHas(T, s)

\* Alphabet.__lt__, __ge__, __gt__ and isdisjoint: the set operators on the
\* two _symbols sets.  set < set is a test of the sizes and then the subset
\* test; >= and > are <= and < with the operands exchanged.
AlphabetLtLoose(S, T) == AlphabetLe(S, T)
AlphabetLt(S, T) == Cardinality(S) < Cardinality(T) /\ AlphabetLe(S, T)
AlphabetGe(S, T) == AlphabetLe(T, S)
AlphabetGt(S, T) == AlphabetLt(T, S)
AlphabetIsDisjoint(S, T) == \A s \in S : ~SetHas(T, s)
CompareOps == {"lt", "le", "gt", "ge", "isdisjoint"}
Compare(op, S, T) ==
    CASE op = "lt" -> AlphabetLt(S, T)
      [] op = "le" -> AlphabetLe(S, T)
      [] op = "gt" -> AlphabetGt(S, T)
      [] op = "ge" -> AlphabetGe(S, T)
      [] op = "isdisjoint" -> AlphabetIsDisjoint(S, T)

NoCall == [op |-> "init", obj |-> None, key |-> "", name |-> "",
           loc |-> 0, other |-> None, copy |-> "None"]
Call(op, obj, key, name, loc, other, copy) ==
    [op |-> op, obj |-> obj, key |-> key, name |-> name,
     loc |-> loc, other |-> other, copy |-> copy]

\* a.add(symbol) with a prebuilt Symbol object
AddSymbol(a, sym) ==
    /\ alph' = [alph EXCEPT ![a] = AlphabetAdd(alph[a], sym)]
    /\ call' = Call("add", a, sym.glyph, sym.name, 0, None, "None")
    /\ err' = "none"
    /\ ret' = sym
    /\ UNCHANGED <<finaliseCalled, str, node, iter, yielded, lsys, procCalls, result, built>>

\* a.add(glyph) and a.add(glyph, name=name); name "" stands for name=None
AddGlyph(a, glyph, name) ==
    /\ alph' = [alph EXCEPT
                  ![a] = AlphabetAdd(alph[a], Symbol(glyph, AddName(glyph, name)))]
    /\ call' = Call("add", a, glyph, AddName(glyph, name), 0, None, "None")
    /\ err' = "none"
    /\ ret' = Symbol(glyph, AddName(glyph, name))
    /\ UNCHANGED <<finaliseCalled, str, node, iter, yielded, lsys, procCalls, result, built>>

\* a.add(glyph, param_names=[...], name=name), the call of test_add: add
\* has the parameters symbol, arg_spec, proc and name, and the call raises
\* TypeError for the unexpected keyword before the body is entered.
AddGlyphParamNames(a, glyph, name) ==
    /\ call' = [op |-> "add", obj |-> a, key |-> glyph, name |-> name,
                form |-> "param_names"]
    /\ err' = "TypeError"
    /\ ret' = NoSymbol
    /\ UNCHANGED <<alph, finaliseCalled, str, node, iter, yielded, lsys, procCalls, result, built>>

\* a.drop(key)
Drop(a, key) ==
    /\ call' = Call("drop", a, key, "", 0, None, "None")
    /\ IF DropMatches(alph[a], key) = {}
       THEN /\ err' = "KeyError"
            /\ ret' = NoSymbol
            /\ alph' = alph
       ELSE \E t \in DropMatches(alph[a], key) :
                /\ alph' = [alph EXCEPT ![a] = alph[a] \ {t}]
                /\ err' = "none"
                /\ ret' = t
    /\ UNCHANGED <<finaliseCalled, str, node, iter, yielded, lsys, procCalls, result, built>>

\* a.get(key)
Get(a, key) ==
    /\ call' = Call("get", a, key, "", 0, None, "None")
    /\ err' = GetErr(alph[a], key)
    /\ IF GetErr(alph[a], key) = "none"
       THEN \E t \in GetMatches(alph[a], key) : ret' = t
       ELSE ret' = NoSymbol
    /\ UNCHANGED <<alph, finaliseCalled, str, node, iter, yielded, lsys, procCalls, result, built>>

\* key in a, with key a str
Contains(a, key) ==
    /\ call' = Call("contains", a, key, "", 0, None, "None")
    /\ err' = ContainsErr(key)
    /\ ret' = IF ContainsErr(key) = "none" THEN ContainsStr(alph[a], key) ELSE FALSE
    /\ UNCHANGED <<alph, finaliseCalled, str, node, iter, yielded, lsys, procCalls, result, built>>

\* sym in a, with sym a Symbol object
ContainsSymbol(a, sym) ==
    /\ call' = Call("contains_symbol", a, sym.glyph, sym.name, 0, None, "None")
    /\ err' = "none"
    /\ ret' = SetHas(alph[a], sym)
    /\ UNCHANGED <<alph, finaliseCalled, str, node, iter, yielded, lsys, procCalls, result, built>>

\* a < b, a <= b, a > b, a >= b and a.isdisjoint(b)
AlphabetCompare(op, a, b) ==
    /\ call' = Call(op, a, "", "", 0, b, "None")
    /\ err' = "none"
    /\ ret' = Compare(op, alph[a], alph[b])
    /\ UNCHANGED <<alph, finaliseCalled, str, node, iter, yielded, lsys, procCalls, result, built>>

\* Alphabet.__and__, __or__ and __sub__: the set operators on the two
\* _symbols sets.  The elements of an intersection are those of the set that
\* is iterated, the smaller one, and other when the sizes are equal; a union
\* is a copy of self to which the elements of other are added; a difference
\* holds the elements of self that are not in other.
AlphabetAnd(S, T) ==
    IF Cardinality(T) > Cardinality(S) THEN {s \in S : SetHas(T, s)}
    ELSE {t \in T : SetHas(S, t)}
AlphabetOrPlain(S, T) == S \cup T
AlphabetOr(S, T) == S \cup {t \in T : ~SetHas(S, t)}
AlphabetSub(S, T) == {s \in S : ~SetHas(T, s)}
SetOps == {"and", "or", "sub"}
SetOp(op, S, T) ==
    CASE op = "and" -> AlphabetAnd(S, T)
      [] op = "or" -> AlphabetOr(S, T)
      [] op = "sub" -> AlphabetSub(S, T)

\* The Alphabet an operator returns: res = Alphabet(), then res._symbols is
\* bound to a set object.  ref is None when that is a set object of its own,
\* whose elements are in symbols, and else the Alphabet whose set object it
\* is.  Res is the reference to the Alphabet returned.
Res == 3
NoResult == [made |-> FALSE, ref |-> None, symbols |-> {}]
ResultSymbols == IF result.ref = None THEN result.symbols ELSE alph[result.ref]
SymbolsOf(a) == IF a = Res THEN ResultSymbols ELSE alph[a]

\* the set object res._symbols is bound to: the operand's own
SetOpRefSelf(a) == IF a = Res THEN result.ref ELSE a
\* the set object res._symbols is bound to: the set operators of Python
\* build a new set, also when both operands are the same set
SetOpRef(a) == None

\* a & b, a | b and a - b; an operand may be the Alphabet returned before
AlphabetSetOp(op, a, b) ==
    /\ (a = Res \/ b = Res) => result.made
    /\ result' = [made |-> TRUE, ref |-> SetOpRef(a),
                  symbols |-> SetOp(op, SymbolsOf(a), SymbolsOf(b))]
    /\ call' = Call(op, a, "", "", 0, b, "None")
    /\ err' = "none"
    /\ ret' = NoSymbol
    /\ UNCHANGED <<alph, finaliseCalled, str, node, iter, yielded, lsys, procCalls, built>>

\* r.add(symbol) on the Alphabet r returned by an operator: the set object
\* r._symbols refers to is the one added to
AddToResult(sym) ==
    /\ result.made
    /\ IF result.ref = None
       THEN /\ result' = [result EXCEPT !.symbols = AlphabetAdd(result.symbols, sym)]
            /\ alph' = alph
       ELSE /\ alph' = [alph EXCEPT ![result.ref] = AlphabetAdd(alph[result.ref], sym)]
            /\ result' = result
    /\ call' = Call("add", Res, sym.glyph, sym.name, 0, None, "None")
    /\ err' = "none"
    /\ ret' = sym
    /\ UNCHANGED <<finaliseCalled, str, node, iter, yielded, lsys, procCalls, built>>

\* r.drop(key) on the Alphabet r returned by an operator
DropFromResult(key) ==
    /\ result.made
    /\ call' = Call("drop", Res, key, "", 0, None, "None")
    /\ IF DropMatches(ResultSymbols, key) = {}
       THEN /\ err' = "KeyError"
            /\ ret' = NoSymbol
            /\ UNCHANGED <<alph, result>>
       ELSE \E t \in DropMatches(ResultSymbols, key) :
                /\ err' = "none"
                /\ ret' = t
                /\ IF result.ref = None
                   THEN /\ result' = [result EXCEPT !.symbols = result.symbols \ {t}]
                        /\ alph' = alph
                   ELSE /\ alph' = [alph EXCEPT ![result.ref] = alph[result.ref] \ {t}]
                        /\ result' = result
    /\ UNCHANGED <<finaliseCalled, str, node, iter, yielded, lsys, procCalls, built>>

\* a.finalise() and a.is_final: class Alphabet defines neither, and no
\* instance attribute of that name is ever set; both raise AttributeError.
Finalise(a) ==
    /\ call' = Call("finalise", a, "", "", 0, None, "None")
    /\ err' = "AttributeError"
    /\ ret' = NoSymbol
    /\ finaliseCalled' = [finaliseCalled EXCEPT ![a] = TRUE]
    /\ UNCHANGED <<alph, str, node, iter, yielded, lsys, procCalls, result, built>>

IsFinal(a) ==
    /\ call' = Call("is_final", a, "", "", 0, None, "None")
    /\ err' = "AttributeError"
    /\ ret' = NoSymbol
    /\ UNCHANGED <<alph, finaliseCalled, str, node, iter, yielded, lsys, procCalls, result, built>>

\* ---------------------------------------------------- _SymbolNode, String

\* Symbol.__slots__ holds '_glyph', '_name', '_arg_spec', '_proc', '_regex'
\* and the class defines no attribute named params.
HasParamsAttr(symbol) == FALSE

\* _SymbolNode.__init__(symbol, params=...): symbol is a Symbol, left and
\* right are None; the next statement evaluates len(symbol.params).
SymbolNodeInitErr(symbol) ==
    IF HasParamsAttr(symbol) THEN "none" ELSE "AttributeError"

\* Alphabet.__contains__(item) with a _SymbolNode as item: the assert on
\* isinstance(item, (str, Symbol)) fails; with asserts stripped (python -O)
\* neither isinstance branch is taken and the final raise is reached.
ContainsNodeErrs == {"AssertionError", "TypeError"}

NoNode == [symbol |-> NoSymbol, left |-> None, right |-> None]
Node(symbol, left, right) == [symbol |-> symbol, left |-> left, right |-> right]

StringObj(first, last, len, alphabet, is_owner, copy_on_write) ==
    [first |-> first, last |-> last, len |-> len, alphabet |-> alphabet,
     is_owner |-> is_owner, copy_on_write |-> copy_on_write]

\* String.__init__, lines 681-714: the branch taken for a String argument.
\* The deep copy builds its first node with _SymbolNode(nd.symbol, ...).
StringInitCopyErr(src, copy) ==
    IF src.len # 0 /\ copy = "True"
    THEN SymbolNodeInitErr(node[src.first].symbol)
    ELSE "none"
StringInitCopy(src, copy) ==
    IF src.len = 0 THEN StringObj(None, None, 0, src.alphabet, TRUE, FALSE)
    ELSE IF copy = "None"
         THEN StringObj(src.first, src.last, src.len, src.alphabet, FALSE, TRUE)
    ELSE StringObj(src.first, src.last, src.len, src.alphabet, FALSE, FALSE)

\* String.__init__, lines 716-721: executed after every branch, whatever
\* the arguments were.
StringInitTail(fields, alphabet) ==
    StringObj(None, None, 0, alphabet, TRUE, FALSE)

\* String(None, alphabet)
EmptyString(alphabet) ==
    StringInitTail(StringObj(None, None, 0, None, TRUE, FALSE), alphabet)

\* s = String(None, alphabet)
NewString(s, a) ==
    /\ str' = [str EXCEPT ![s] = EmptyString(a)]
    /\ call' = Call("String", s, "", "", 0, None, "None")
    /\ err' = "none"
    /\ ret' = NoSymbol
    /\ UNCHANGED <<alph, finaliseCalled, node, iter, yielded, lsys, procCalls, result, built>>

\* s = String("...", alphabet): TypeError without an Alphabet, else the
\* parser is not written; no object results and s keeps its value.
NewStringFromText(s, a) ==
    /\ call' = Call("String", s, "text", "", 0, None, "None")
    /\ err' = IF a = None THEN "TypeError" ELSE "NotImplementedError"
    /\ ret' = NoSymbol
    /\ UNCHANGED <<alph, finaliseCalled, str, node, iter, yielded, lsys, procCalls, result, built>>

\* s.parse(input): the method raises whatever the input
Parse(s) ==
    /\ call' = Call("parse", s, "text", "", 0, None, "None")
    /\ err' = "NotImplementedError"
    /\ ret' = NoSymbol
    /\ UNCHANGED <<alph, finaliseCalled, str, node, iter, yielded, lsys, procCalls, result, built>>

\* s = String(src, alphabet, copy) with src a String
NewStringFromString(s, src, a, copy) ==
    /\ call' = Call("String", s, "", "", 0, src, copy)
    /\ err' = StringInitCopyErr(str[src], copy)
    /\ ret' = NoSymbol
    /\ IF StringInitCopyErr(str[src], copy) = "none"
       THEN str' = [str EXCEPT
                      ![s] = StringInitTail(StringInitCopy(str[src], copy), a)]
       ELSE str' = str
    /\ UNCHANGED <<alph, finaliseCalled, node, iter, yielded, lsys, procCalls, result, built>>

\* The walk along right links from first, len nodes long: the occurrences
\* of a String in order.
RECURSIVE Walk(_, _)
Walk(n, k) == IF k = 0 \/ n = None THEN <<>> ELSE <<n>> \o Walk(node[n].right, k - 1)
Chain(s) == Walk(s.first, s.len)
Symbols(s) == [i \in 1..Len(Chain(s)) |-> node[Chain(s)[i]].symbol]

\* String.insert, line 755
LocOutOfBoundsIncl(len, loc) ==
    (len = 0 /\ loc \notin {0, -1}) \/ ~(-len <= loc /\ loc <= len)
LocOutOfBounds(len, loc) ==
    (len = 0 /\ loc \notin {0, -1}) \/ ~(-len <= loc /\ loc < len)

\* String.insert(item, loc) with item a str, up to the statement that ends
\* it: the bounds test, self.alphabet.get(item), _SymbolNode(...), and the
\* membership test of the new node.  Lines 764-793 follow that test, which
\* raises for every node, and are never executed.
InsertKeyErrs(s, key, loc) ==
    IF LocOutOfBounds(s.len, loc) THEN {"IndexError"}
    ELSE IF s.alphabet = None THEN {"AttributeError"}
    ELSE IF GetErr(alph[s.alphabet], key) # "none"
         THEN {GetErr(alph[s.alphabet], key)}
    ELSE {IF SymbolNodeInitErr(t) # "none" THEN SymbolNodeInitErr(t) ELSE e :
              t \in GetMatches(alph[s.alphabet], key), e \in ContainsNodeErrs}

\* String.insert(item, loc) with item a String: the bounds test, then
\* item.alphabet <= self.alphabet (a TypeError when either is None), then
\* pass in both branches of the subset case.
InsertStringErr(s, other, loc) ==
    IF LocOutOfBounds(s.len, loc) THEN "IndexError"
    ELSE IF s.alphabet = None \/ other.alphabet = None THEN "TypeError"
    ELSE IF AlphabetLe(alph[other.alphabet], alph[s.alphabet]) THEN "none"
    ELSE "KeyError"

InsertKey(op, s, key, loc) ==
    /\ call' = Call(op, s, key, "", loc, None, "None")
    /\ err' \in InsertKeyErrs(str[s], key, loc)
    /\ ret' = NoSymbol
    /\ UNCHANGED <<alph, finaliseCalled, str, node, iter, yielded, lsys, procCalls, result, built>>

InsertString(op, s, other, loc) ==
    /\ call' = Call(op, s, "", "", loc, other, "None")
    /\ err' = InsertStringErr(str[s], str[other], loc)
    /\ ret' = NoSymbol
    /\ UNCHANGED <<alph, finaliseCalled, str, node, iter, yielded, lsys, procCalls, result, built>>

\* s.append(item) is self.insert(item, -1, params) and s.prepend(item) is
\* self.insert(item, 0, params): InsertKey and InsertString with that loc.

\* ------------------------------------------------------- _StringIterator

\* String.__iter__: _StringIterator(self._first, self._last).  src and
\* expect are history: the String iterated and its occurrences at that time.
StringIter(s) ==
    [next |-> str[s].first, last |-> str[s].last, src |-> s,
     expect |-> Chain(str[s])]

IterNew(s) ==
    /\ iter' = StringIter(s)
    /\ yielded' = <<>>
    /\ call' = Call("iter", s, "", "", 0, None, "None")
    /\ err' = "none"
    /\ ret' = NoSymbol
    /\ UNCHANGED <<alph, finaliseCalled, str, node, lsys, procCalls, result, built>>

\* _StringIterator.__next__, line 963
IterAdvance(res, last) ==
    IF node[res].right # last THEN node[res].right ELSE None

IterNext ==
    /\ call' = Call("next", iter.src, "", "", 0, None, "None")
    /\ IF iter.next = None
       THEN /\ err' = "StopIteration"
            /\ ret' = NoSymbol
            /\ UNCHANGED <<iter, yielded>>
       ELSE /\ err' = "none"
            /\ ret' = node[iter.next].symbol
            /\ yielded' = Append(yielded, iter.next)
            /\ iter' = [iter EXCEPT !.next = IterAdvance(iter.next, iter.last)]
    /\ UNCHANGED <<alph, finaliseCalled, str, node, lsys, procCalls, result, built>>

\* ----------------------------------------------------- _SymbolNode links

\* N is the value of node: the links of every _SymbolNode.

\* the nodes reached from the nodes of S by left and right links
RECURSIVE Reach(_, _)
Reach(N, S) ==
    LET T == S \cup (({N[x].left : x \in S} \cup {N[x].right : x \in S}) \ {None})
    IN  IF T = S THEN S ELSE Reach(N, T)
ChainOf(N, n) == Reach(N, {n})

\* a well-formed chain: every link of its nodes is answered by the opposite
\* link of the neighbour, and it has a left end
WellFormed(N, n) ==
    /\ \A x \in ChainOf(N, n) :
         /\ N[x].left # None => N[N[x].left].right = x
         /\ N[x].right # None => N[N[x].right].left = x
    /\ \E x \in ChainOf(N, n) : N[x].left = None
Unlinked(N, s) == N[s].left = None /\ N[s].right = None

\* n.left = sibling and n.right = sibling (the setters): the link is set
\* when sibling is a _SymbolNode, and the raise follows in every case.
\* sibling = None is a value that is not a _SymbolNode.
SetLink(N, n, side, sibling) ==
    IF sibling \in LinkIds
    THEN IF side = "left" THEN [N EXCEPT ![n].left = sibling]
         ELSE [N EXCEPT ![n].right = sibling]
    ELSE N
SetSibling(n, side, sibling) ==
    /\ node' = SetLink(node, n, side, sibling)
    /\ call' = Call("set", n, side, "", 0, sibling, "None")
    /\ err' = "TypeError"
    /\ ret' = NoSymbol
    /\ UNCHANGED <<alph, finaliseCalled, str, iter, yielded, lsys, procCalls, result, built>>
\* the else branch of add_sibling and of drop_sibling
WhereErr(where) == IF where \in {"left", "right"} THEN "none" ELSE "ValueError"

\* n.add_sibling(s, where), the assignments in the order of the code
AddSiblingLinks(N, n, s, where) ==
    IF where = "right"
    THEN LET N1 == IF N[n].right # None THEN [N EXCEPT ![s].right = N[n].right] ELSE N
             N2 == IF N[n].right # None THEN [N1 EXCEPT ![N1[n].right].left = s] ELSE N1
             N3 == [N2 EXCEPT ![n].right = s]
         IN  [N3 EXCEPT ![s].left = n]
    ELSE LET N1 == IF N[n].left # None THEN [N EXCEPT ![s].left = N[n].left] ELSE N
             N2 == IF N[n].left # None THEN [N1 EXCEPT ![N1[n].left].right = s] ELSE N1
             N3 == [N2 EXCEPT ![n].left = s]
         IN  [N3 EXCEPT ![s].right = n]
AddSibling(n, s, where) ==
    /\ node' = IF WhereErr(where) = "none" THEN AddSiblingLinks(node, n, s, where) ELSE node
    /\ call' = Call("add_sibling", n, where, "", 0, s, "None")
    /\ err' = WhereErr(where)
    /\ ret' = NoSymbol
    /\ UNCHANGED <<alph, finaliseCalled, str, iter, yielded, lsys, procCalls, result, built>>
\* drop_sibling with the step self._right._right._left = self left out
DropSiblingOneWay(N, n, where) ==
    IF where = "right"
    THEN IF N[n].right = None THEN N
         ELSE [N EXCEPT ![n].right = N[N[n].right].right]
    ELSE IF N[n].left = None THEN N
         ELSE [N EXCEPT ![n].left = N[N[n].left].left]

\* n.drop_sibling(where): nothing to drop, one sibling on that side, more
\* than one sibling on that side
DropSiblingLinks(N, n, where) ==
    IF where = "right"
    THEN IF N[n].right = None THEN N
         ELSE IF N[N[n].right].right = None THEN [N EXCEPT ![n].right = None]
         ELSE LET N1 == [N EXCEPT ![N[N[n].right].right].left = n]
              IN  [N1 EXCEPT ![n].right = N1[N1[n].right].right]
    ELSE IF N[n].left = None THEN N
         ELSE IF N[N[n].left].left = None THEN [N EXCEPT ![n].left = None]
         ELSE LET N1 == [N EXCEPT ![N[N[n].left].left].right = n]
              IN  [N1 EXCEPT ![n].left = N1[N1[n].left].left]
DropSiblingRet(N, n, where) ==
    IF where = "right" THEN N[n].right # None ELSE N[n].left # None
DropSibling(n, where) ==
    /\ node' = IF WhereErr(where) = "none" THEN DropSiblingLinks(node, n, where) ELSE node
    /\ call' = Call("drop_sibling", n, where, "", 0, None, "None")
    /\ err' = WhereErr(where)
    /\ ret' = IF WhereErr(where) = "none" THEN DropSiblingRet(node, n, where) ELSE NoSymbol
    /\ UNCHANGED <<alph, finaliseCalled, str, iter, yielded, lsys, procCalls, result, built>>
\* ----------------------------------------------------------------- Symbol

\* the smaller of two numbers
Min(m, n) == IF m < n THEN m ELSE n

\* Symbol.__init__, line 59: dict(zip(args, argtypes)) pairs the names and
\* the types up to the shorter of the two; the keys keep their order.
ZipLen(args, argtypes) == Min(Len(args), Len(argtypes))

\* No Symbol constructed yet.  declared is history: the args handed to the
\* constructor; regex is Symbol._regex, None (0) until first read.
NoBuilt == [made |-> FALSE, glyph |-> "", name |-> "", argnames |-> <<>>,
            argtypes |-> <<>>, declared |-> <<>>, cached |-> FALSE, regex |-> <<>>]

\* Symbol(glyph, name, args, argtypes); name "" stands for a call without
\* name, which is a required parameter: TypeError, and no object.
NewSymbol(glyph, name, args, argtypes) ==
    /\ call' = [op |-> "Symbol", obj |-> None, glyph |-> glyph, name |-> name,
                args |-> args, argtypes |-> argtypes]
    /\ IF name = ""
       THEN /\ err' = "TypeError"
            /\ built' = built
       ELSE /\ err' = "none"
            /\ built' = [made |-> TRUE, glyph |-> glyph, name |-> name,
                         argnames |-> SubSeq(args, 1, ZipLen(args, argtypes)),
                         argtypes |-> SubSeq(argtypes, 1, ZipLen(args, argtypes)),
                         declared |-> args, cached |-> FALSE, regex |-> <<>>]
    /\ ret' = NoSymbol
    /\ UNCHANGED <<alph, finaliseCalled, str, node, iter, yielded, lsys, procCalls, result>>

\* Symbol.regex, lines 118-127, as the sequence of its pieces: for each key
\* of _arg_spec the expression of one argument and a comma; the last comma
\* is cut and the brackets are put around when there is any; then ^glyph.
RECURSIVE RegexArgs(_)
RegexArgs(names) ==
    IF names = <<>> THEN <<>>
    ELSE <<"\\s*(?P<", Head(names), ">\\w+)", ",">> \o RegexArgs(Tail(names))
SymbolRegex(glyph, names) ==
    <<"^", glyph>> \o
    (IF Len(RegexArgs(names)) > 0
     THEN <<"\\(">> \o SubSeq(RegexArgs(names), 1, Len(RegexArgs(names)) - 1) \o <<"\\)">>
     ELSE <<>>)

\* sym.regex on the Symbol constructed last: computed on the first read
\* and kept in _regex
ReadRegex ==
    /\ built.made
    /\ call' = [op |-> "regex", obj |-> None]
    /\ err' = "none"
    /\ ret' = IF built.cached THEN built.regex
              ELSE SymbolRegex(built.glyph, built.argnames)
    /\ built' = [built EXCEPT !.cached = TRUE, !.regex = ret']
    /\ UNCHANGED <<alph, finaliseCalled, str, node, iter, yielded, lsys, procCalls, result>>

\* sym.arglen on the Symbol constructed last
ReadArglen ==
    /\ built.made
    /\ call' = [op |-> "arglen", obj |-> None]
    /\ err' = "none"
    /\ ret' = Len(built.argnames)
    /\ UNCHANGED <<alph, finaliseCalled, str, node, iter, yielded, lsys, procCalls, result, built>>

\* sym.size on the Symbol constructed last, the attribute test_attributes
\* reads: it is in neither __slots__ nor the class.
ReadSize ==
    /\ built.made
    /\ call' = [op |-> "size", obj |-> None]
    /\ err' = "AttributeError"
    /\ ret' = NoSymbol
    /\ UNCHANGED <<alph, finaliseCalled, str, node, iter, yielded, lsys, procCalls, result, built>>

\* ------------------------------------------------------- _character_node

\* Argument names, the type specifiers of Symbol.__init__ and argument
\* values; a value is its Python type and its text.
ArgNames == <<"x", "y">>
ArgTypes == {"int", "str"}
ArgValues == {[type |-> "int", text |-> "1"], [type |-> "str", text |-> "s"]}

\* the functions from a subset of the names in names to V (a dict)
Dicts(names, V) ==
    UNION {[D -> V] : D \in SUBSET {names[i] : i \in 1..Len(names)}}

\* Symbol._arg_spec of the symbols a node is built for
ArgSpecs == Dicts(ArgNames, ArgTypes)
\* the args / params argument: None, or a dict
NoArgs == [given |-> FALSE, dict |-> <<>>]
ArgDict(d) == [given |-> TRUE, dict |-> d]
ArgInputs == {NoArgs} \cup {ArgDict(d) : d \in Dicts(ArgNames, ArgValues)}

\* _character_node.__init__, lines 398-400: the loop over argspec.items()
\* in declared order; args[arg] raises KeyError for a missing key, a value
\* of another type raises TypeError, and the first one raised ends the call.
RECURSIVE CheckTypes(_, _, _)
CheckTypes(argspec, d, names) ==
    IF names = <<>> THEN "none"
    ELSE IF Head(names) \notin DOMAIN argspec THEN CheckTypes(argspec, d, Tail(names))
    ELSE IF Head(names) \notin DOMAIN d THEN "KeyError"
    ELSE IF d[Head(names)].type # argspec[Head(names)] THEN "TypeError"
    ELSE CheckTypes(argspec, d, Tail(names))

\* _character_node.__init__, lines 394-404: nothing is validated when the
\* symbol declares no argument.  With args=None and a symbol that declares
\* some, the assert fails; with asserts stripped, args[arg] on None raises
\* TypeError.
CharacterNodeErrs(argspec, args) ==
    IF DOMAIN argspec = {} THEN {"none"}
    ELSE IF ~args.given THEN {"AssertionError", "TypeError"}
    ELSE IF CheckTypes(argspec, args.dict, ArgNames) # "none"
         THEN {CheckTypes(argspec, args.dict, ArgNames)}
    ELSE IF Cardinality(DOMAIN args.dict) # Cardinality(DOMAIN argspec)
         THEN {"KeyError"}
    ELSE {"none"}

\* _character_node.__init__, lines 409-412: the node built
CharacterNode(glyph, argspec, args) ==
    [symbol |-> Symbol(glyph, glyph), argspec |-> argspec,
     args |-> IF args.given THEN args.dict ELSE <<>>,
     left |-> None, right |-> None]

\* _character_node(symbol, args) for a Symbol with that glyph and arg_spec
NewCharacterNode(glyph, argspec, args) ==
    /\ call' = [op |-> "_character_node", obj |-> None, glyph |-> glyph,
                argspec |-> argspec, args |-> args]
    /\ err' \in CharacterNodeErrs(argspec, args)
    /\ ret' = IF err' = "none" THEN CharacterNode(glyph, argspec, args)
              ELSE NoSymbol
    /\ UNCHANGED <<alph, finaliseCalled, str, node, iter, yielded, lsys, procCalls, result, built>>

\* _SymbolNode(symbol, params=params) for a Symbol with that glyph and
\* arg_spec: line 508 is reached for every Symbol.
NewSymbolNode(glyph, argspec, params) ==
    /\ call' = [op |-> "_SymbolNode", obj |-> None, glyph |-> glyph,
                argspec |-> argspec, args |-> params]
    /\ err' = SymbolNodeInitErr(Symbol(glyph, glyph))
    /\ ret' = NoSymbol
    /\ UNCHANGED <<alph, finaliseCalled, str, node, iter, yielded, lsys, procCalls, result, built>>

\* --------------------------------------------------------------- LSystem

\* LSystem.__init__: no symbols, no rules, no current string.
NewLSystem == [symbols |-> {}, rules |-> <<>>, tree |-> None]

\* A rule handler, by what it answers for its subject: no match, or a match
\* with the replacement glyphs.
Handlers == {[matches |-> FALSE, by |-> <<>>],
             [matches |-> TRUE, by |-> <<"a", "b">>],
             [matches |-> TRUE, by |-> <<"b">>]}
\* the probability weighting p of add_rule; 0 stands for None
Weights == {None, 1}

\* Every method of LSystem is the one statement raise NotImplementedError().
LSystemMethodErr == "NotImplementedError"

\* L.add_rule(symbol, handler, pre, post, name, p)
AddRule(symbol, handler, p) ==
    /\ call' = [op |-> "add_rule", obj |-> None, symbol |-> symbol,
                handler |-> handler, p |-> p]
    /\ err' = LSystemMethodErr
    /\ ret' = NoSymbol
    /\ UNCHANGED <<alph, finaliseCalled, str, node, iter, yielded, lsys, procCalls, result, built>>

\* L.iterate(axiom, iters); axiom is None or a String
Iterate(axiom, iters) ==
    /\ call' = [op |-> "iterate", obj |-> None, axiom |-> axiom, iters |-> iters]
    /\ err' = LSystemMethodErr
    /\ ret' = NoSymbol
    /\ UNCHANGED <<alph, finaliseCalled, str, node, iter, yielded, lsys, procCalls, result, built>>

\* L.execute()
Execute ==
    /\ call' = [op |-> "execute", obj |-> None]
    /\ err' = LSystemMethodErr
    /\ ret' = NoSymbol
    /\ UNCHANGED <<alph, finaliseCalled, str, node, iter, yielded, lsys, procCalls, result, built>>

\* ------------------------------------------------------- specifications

\* sequences over S of length at most n
SeqUpTo(S, n) == UNION {[1..k -> S] : k \in 0..n}

NoIter == [next |-> None, last |-> None, src |-> 1, expect |-> <<>>]

\* The program from its constructors.  Every object is as its constructor
\* leaves it: Alphabet(symbols) for a list of symbols, String(None,
\* alphabet), no node.  The client adds to, drops from and finalises
\* Alphabet 1, reads both, builds String 1 anew (empty, from a text, or from
\* String 2), inserts into String 1 and iterates both Strings.
Init ==
    /\ alph \in [AlphIds -> {AlphabetInit(l) : l \in SeqUpTo(SymbolPool, MaxInit)}]
    /\ finaliseCalled = [a \in AlphIds |-> FALSE]
    /\ str \in [StrIds -> {EmptyString(a) : a \in AlphIds \cup {None}}]
    /\ node = [n \in NodeIds |-> NoNode]
    /\ iter = NoIter
    /\ yielded = <<>>
    /\ lsys = NewLSystem
    /\ procCalls = <<>>
    /\ result = NoResult
    /\ built = NoBuilt
    /\ call = NoCall
    /\ err = "none"
    /\ ret = NoSymbol

EmptyLocs == -2..1

StringCalls(locs) ==
    \/ \E a \in AlphIds \cup {None} : NewString(1, a)
    \/ \E a \in {None, 1} : NewStringFromText(1, a)
    \/ Parse(1)
    \/ \E a \in AlphIds \cup {None}, copy \in {"None", "True", "False"} :
           NewStringFromString(1, 2, a, copy)
    \/ \E key \in Keys, loc \in locs : InsertKey("insert", 1, key, loc)
    \/ \E other \in StrIds, loc \in locs : InsertString("insert", 1, other, loc)
    \/ \E key \in Keys : InsertKey("append", 1, key, -1)
    \/ \E other \in StrIds : InsertString("append", 1, other, -1)
    \/ \E key \in Keys : InsertKey("prepend", 1, key, 0)
    \/ \E other \in StrIds : InsertString("prepend", 1, other, 0)
    \/ \E s \in StrIds : IterNew(s)
    \/ IterNext

Next ==
    \/ \E sym \in SymbolPool : AddSymbol(1, sym)
    \/ \E g \in Glyphs, n \in LongNames \cup {""} : AddGlyph(1, g, n)
    \/ \E key \in Keys : Drop(1, key)
    \/ \E a \in AlphIds, key \in Keys : Get(a, key)
    \/ Finalise(1)
    \/ IsFinal(1)
    \/ StringCalls(EmptyLocs)

Spec == Init /\ [][Next]_vars

\* The methods of String and _StringIterator on Strings that hold a chain.
\* No call of the program links a node into a String (see InsertKeyErrs),
\* so the chains are supplied: String 1 holds a well-formed chain of at most
\* MaxLen nodes over Alphabet 1, String 2 one of at most MaxOther nodes over
\* Alphabet 1 or 2, both owners of their nodes.
ChainAlph ==
    [a \in AlphIds |-> IF a = 1 THEN {Symbol("a", "a"), Symbol("b", "xx")}
                       ELSE {Symbol("a", "a")}]

\* the nodes of a chain spelling w, stored at base+1 .. base+Len(w)
ChainNode(w, base, n) ==
    Node(w[n - base],
         IF n - base = 1 THEN None ELSE n - 1,
         IF n - base = Len(w) THEN None ELSE n + 1)
ChainString(w, base, a) ==
    IF Len(w) = 0 THEN StringObj(None, None, 0, a, TRUE, FALSE)
    ELSE StringObj(base + 1, base + Len(w), Len(w), a, TRUE, FALSE)

InitChain ==
    /\ alph = ChainAlph
    /\ finaliseCalled = [a \in AlphIds |-> FALSE]
    /\ \E w1 \in SeqUpTo(ChainAlph[1], MaxLen), a2 \in AlphIds :
         \E w2 \in SeqUpTo(ChainAlph[a2], MaxOther) :
           /\ node = [n \in NodeIds |->
                        IF n <= Len(w1) THEN ChainNode(w1, 0, n)
                        ELSE IF n <= Len(w1) + Len(w2) THEN ChainNode(w2, Len(w1), n)
                        ELSE NoNode]
           /\ str = [s \in StrIds |-> IF s = 1 THEN ChainString(w1, 0, 1)
                                      ELSE ChainString(w2, Len(w1), a2)]
    /\ iter = NoIter
    /\ yielded = <<>>
    /\ lsys = NewLSystem
    /\ procCalls = <<>>
    /\ result = NoResult
    /\ built = NoBuilt
    /\ call = NoCall
    /\ err = "none"
    /\ ret = NoSymbol

Locs == (-(MaxLen + 1))..(MaxLen + 1)

NextChain == StringCalls(Locs)

SpecChain == InitChain /\ [][NextChain]_vars

\* The Alphabet alone: two Alphabets as Alphabet(symbols) leaves them, over
\* every Symbol of the pool and those whose name is one character that is
\* not their glyph; the client adds to and drops from both, and reads both.
AllSymbols == SymbolPool \cup {Symbol(g, n) : g \in Glyphs, n \in Glyphs}

InitAlph ==
    /\ alph \in [AlphIds -> {AlphabetInit(l) : l \in SeqUpTo(AllSymbols, MaxInit)}]
    /\ finaliseCalled = [a \in AlphIds |-> FALSE]
    /\ str = [s \in StrIds |-> EmptyString(1)]
    /\ node = [n \in NodeIds |-> NoNode]
    /\ iter = NoIter
    /\ yielded = <<>>
    /\ lsys = NewLSystem
    /\ procCalls = <<>>
    /\ result = NoResult
    /\ built = NoBuilt
    /\ call = NoCall
    /\ err = "none"
    /\ ret = NoSymbol

NextAlph ==
    \/ \E a \in AlphIds, sym \in AllSymbols : AddSymbol(a, sym)
    \/ \E a \in AlphIds, g \in Glyphs, n \in LongNames \cup Glyphs \cup {""} :
           AddGlyph(a, g, n)
    \/ \E a \in AlphIds, g \in Glyphs, n \in LongNames : AddGlyphParamNames(a, g, n)
    \/ \E a \in AlphIds, key \in Keys : Drop(a, key)
    \/ \E a \in AlphIds, key \in Keys : Get(a, key)
    \/ \E a \in AlphIds, key \in Keys : Contains(a, key)
    \/ \E a \in AlphIds, sym \in AllSymbols : ContainsSymbol(a, sym)
    \/ \E op \in CompareOps, a \in AlphIds, b \in AlphIds : AlphabetCompare(op, a, b)

SpecAlph == InitAlph /\ [][NextAlph]_vars

\* The set algebra of Alphabets: two Alphabets as Alphabet(symbols) leaves
\* them; the client adds to and drops from both, combines them and the
\* Alphabet returned before with &, | and -, and adds to and drops from the
\* Alphabet returned.
InitAlgebra ==
    /\ alph \in [AlphIds -> {AlphabetInit(l) : l \in SeqUpTo(SymbolPool, MaxInit)}]
    /\ finaliseCalled = [a \in AlphIds |-> FALSE]
    /\ str = [s \in StrIds |-> EmptyString(1)]
    /\ node = [n \in NodeIds |-> NoNode]
    /\ iter = NoIter
    /\ yielded = <<>>
    /\ lsys = NewLSystem
    /\ procCalls = <<>>
    /\ result = NoResult
    /\ built = NoBuilt
    /\ call = NoCall
    /\ err = "none"
    /\ ret = NoSymbol

NextAlgebra ==
    \/ \E a \in AlphIds, sym \in SymbolPool : AddSymbol(a, sym)
    \/ \E a \in AlphIds, key \in Keys : Drop(a, key)
    \/ \E op \in SetOps, a \in AlphIds \cup {Res}, b \in AlphIds \cup {Res} :
           AlphabetSetOp(op, a, b)
    \/ \E sym \in SymbolPool : AddToResult(sym)
    \/ \E key \in Keys : DropFromResult(key)

SpecAlgebra == InitAlgebra /\ [][NextAlgebra]_vars

\* Occurrences and the engine: the two node constructors and the methods of
\* an LSystem as LSystem() leaves it, beside two empty Strings over an
\* Alphabet {a, b}.
InitEngine ==
    /\ alph = [a \in AlphIds |-> AlphabetInit(<<Symbol("a", "a"), Symbol("b", "b")>>)]
    /\ finaliseCalled = [a \in AlphIds |-> FALSE]
    /\ str = [s \in StrIds |-> EmptyString(1)]
    /\ node = [n \in NodeIds |-> NoNode]
    /\ iter = NoIter
    /\ yielded = <<>>
    /\ lsys = NewLSystem
    /\ procCalls = <<>>
    /\ result = NoResult
    /\ built = NoBuilt
    /\ call = NoCall
    /\ err = "none"
    /\ ret = NoSymbol

\* the args handed to Symbol(...): the first names of ArgNames
ArgLists == {SubSeq(ArgNames, 1, k) : k \in 0..Len(ArgNames)}

NextEngine ==
    \/ \E name \in LongNames \cup {""}, args \in ArgLists,
          argtypes \in SeqUpTo(ArgTypes, Len(ArgNames)) :
           NewSymbol("a", name, args, argtypes)
    \/ ReadRegex
    \/ ReadArglen
    \/ ReadSize
    \/ \E argspec \in ArgSpecs, args \in ArgInputs : NewCharacterNode("a", argspec, args)
    \/ \E argspec \in ArgSpecs, params \in ArgInputs : NewSymbolNode("a", argspec, params)
    \/ \E symbol \in Glyphs, handler \in Handlers, p \in Weights :
           AddRule(symbol, handler, p)
    \/ \E axiom \in StrIds \cup {None}, iters \in 0..MaxIters : Iterate(axiom, iters)
    \/ Execute

SpecEngine == InitEngine /\ [][NextEngine]_vars

\* _SymbolNode methods on supplied nodes: the first k nodes are a chain in
\* the order of their ids, the others have no link.  add_sibling and
\* drop_sibling are called on a node of a well-formed chain, add_sibling
\* with a node that has no link; the setters are called on any node.
LinkedNode(k, n) ==
    Node(Symbol("a", "a"),
         IF n <= k /\ n > 1 THEN n - 1 ELSE None,
         IF n < k THEN n + 1 ELSE None)
InitNode ==
    /\ alph = ChainAlph
    /\ finaliseCalled = [a \in AlphIds |-> FALSE]
    /\ str = [s \in StrIds |-> EmptyString(1)]
    /\ \E k \in LinkIds : node = [n \in LinkIds |-> LinkedNode(k, n)]
    /\ iter = NoIter
    /\ yielded = <<>>
    /\ lsys = NewLSystem
    /\ procCalls = <<>>
    /\ result = NoResult
    /\ built = NoBuilt
    /\ call = NoCall
    /\ err = "none"
    /\ ret = NoSymbol

Wheres == {"left", "right", "up"}

NextNode ==
    \/ \E n \in LinkIds, s \in LinkIds, where \in Wheres :
           /\ WellFormed(node, n)
           /\ Unlinked(node, s) /\ s \notin ChainOf(node, n)
           /\ AddSibling(n, s, where)
    \/ \E n \in LinkIds, where \in Wheres :
           /\ WellFormed(node, n)
           /\ DropSibling(n, where)

SpecNode == InitNode /\ [][NextNode]_vars

NextLinks ==
    \/ \E n \in LinkIds, side \in {"left", "right"}, sibling \in LinkIds \cup {None} :
           SetSibling(n, side, sibling)

SpecLinks == InitNode /\ [][NextLinks]_vars

\* --------------------------------------------------------------- claims

InsertOps == {"insert", "append", "prepend"}

\* the positions the documentation of insert accepts: -len <= loc < len,
\* and 0 or -1 on an empty String
DocLocOk(n, loc) == IF n = 0 THEN loc \in {0, -1} ELSE -n <= loc /\ loc < n

\* seq with x (xs) put in so that it starts at position pos (from 1)
InsertAt(seq, pos, x) ==
    SubSeq(seq, 1, pos - 1) \o <<x>> \o SubSeq(seq, pos, Len(seq))
InsertSeqAt(seq, pos, xs) ==
    SubSeq(seq, 1, pos - 1) \o xs \o SubSeq(seq, pos, Len(seq))
\* where insert(item, loc) is to put item in a String of length n: at index
\* loc for loc >= 0, to the right of the element counted from the end else
DocPos(n, loc) == IF loc >= 0 THEN loc + 1 ELSE n + loc + 2

\* the last call is an insert, append or prepend of a glyph or a name
KeyInsert(c) == c.op \in InsertOps /\ c.other = None
\* the last call is an insert, append or prepend of another String
StringInsert(c) == c.op \in InsertOps /\ c.other # None /\ c.other # c.obj

\* C2: no two symbols held by an Alphabet have the same glyph, and no two
\* have the same name.
C2_UniqueGlyphAndName ==
    \A a \in AlphIds : \A s, t \in alph[a] :
        s # t => s.glyph # t.glyph /\ s.name # t.name

\* C3: Alphabet.add of a symbol whose glyph or whose name is already used by
\* a registered symbol raises KeyError and leaves the symbols (and so the
\* length) unchanged.
C3_AddDuplicateRaises ==
    [][(/\ call'.op = "add"
        /\ \E t \in alph[call'.obj] :
              t.glyph = call'.key \/ t.name = call'.name)
       => (err' = "KeyError" /\ alph' = alph)]_vars

\* C4: once finalise() has been called on an Alphabet, every add and every
\* drop on it raises PermissionError and leaves its symbols unchanged.
C4_FinalisedRejectsChange ==
    [][(call'.op \in {"add", "drop"} /\ finaliseCalled[call'.obj])
       => (err' = "PermissionError" /\ alph' = alph)]_vars

\* C5: the symbol of every occurrence of a String is a member of the
\* String's Alphabet, and an insert (at a position the documentation
\* accepts) naming a symbol that is not in that Alphabet raises KeyError and
\* adds no occurrence.
C5_ForeignSymbolKeyError ==
    /\ [](\A s \in StrIds : str[s].alphabet # None =>
            \A i \in 1..Len(Symbols(str[s])) :
                SetHas(alph[str[s].alphabet], Symbols(str[s])[i]))
    /\ [][(/\ KeyInsert(call')
           /\ call'.key # ""
           /\ str[call'.obj].alphabet # None
           /\ GetMatches(alph[str[call'.obj].alphabet], call'.key) = {}
           /\ DocLocOk(str[call'.obj].len, call'.loc))
          => (err' = "KeyError" /\ str' = str /\ node' = node)]_vars

C7_InsertIntoEmpty ==
    [][(/\ KeyInsert(call')
        /\ str[call'.obj].len = 0
        /\ str[call'.obj].alphabet # None
        /\ GetErr(alph[str[call'.obj].alphabet], call'.key) = "none")
       => IF call'.loc \in {0, -1}
          THEN /\ err' = "none"
               /\ str'[call'.obj].len = 1
               /\ str'[call'.obj].first # None
               /\ str'[call'.obj].first = str'[call'.obj].last
               /\ node'[str'[call'.obj].first].symbol \in
                     GetMatches(alph[str[call'.obj].alphabet], call'.key)
          ELSE err' = "IndexError"]_vars

\* C8: on a String of length n >= 1, insert raises IndexError exactly when
\* loc < -n or loc >= n, and when it does the String (length, first, last)
\* and every node are unchanged.
C8_IndexErrorExactlyOutOfRange ==
    [][(call'.op \in InsertOps /\ str[call'.obj].len >= 1)
       => (/\ (err' = "IndexError") <=>
                 (call'.loc < -str[call'.obj].len \/ call'.loc >= str[call'.obj].len)
           /\ err' = "IndexError" => (str' = str /\ node' = node))]_vars

\* C8, its case: insert has raised IndexError on a String of length >= 1.
C8_Witness ==
    /\ call.op = "insert"
    /\ str[call.obj].len >= 1
    /\ err = "IndexError"
    /\ call.loc >= str[call.obj].len

\* C9: insert(other, loc) of another String at a position the documentation
\* accepts raises KeyError and changes nothing when other's Alphabet is not
\* a subset of the target's; otherwise it returns and the target holds
\* other's occurrences, contiguous and in order, at loc: length + len(other).
C9_InsertString ==
    [][\A o \in StrIds :
        (/\ StringInsert(call')
         /\ call'.obj = o
         /\ str[o].alphabet # None
         /\ str[call'.other].alphabet # None
         /\ DocLocOk(str[o].len, call'.loc))
        => IF ~AlphabetLe(alph[str[call'.other].alphabet], alph[str[o].alphabet])
           THEN err' = "KeyError" /\ str' = str /\ node' = node
           ELSE /\ err' = "none"
                /\ (Symbols(str[o]))' =
                      InsertSeqAt(Symbols(str[o]), DocPos(str[o].len, call'.loc),
                                  Symbols(str[call'.other]))]_vars

C11_NodeArgsMatchSpec ==
    call.op \in {"_character_node", "_SymbolNode"} =>
        LET given == IF call.args.given THEN call.args.dict ELSE <<>>
        IN /\ err = "none" =>
                /\ DOMAIN ret.args = DOMAIN call.argspec
                /\ \A n \in DOMAIN ret.args : ret.args[n].type = call.argspec[n]
           /\ ~(/\ DOMAIN given = DOMAIN call.argspec
                /\ \A n \in DOMAIN given : given[n].type = call.argspec[n])
                => err # "none"

\* What the documentation of add_rule and iterate describes, for rules
\* [symbol, handler, p] in registration order and a String read as its
\* glyphs: the first rule of the subject whose handler matches (0: none),
\* the replacement of one occurrence, one pass, the string after at most k
\* passes stopping at the first pass that changes nothing, and whether such
\* a pass happened.
FirstMatch(rules, g) ==
    LET I == {i \in 1..Len(rules) : rules[i].symbol = g /\ rules[i].handler.matches}
    IN IF I = {} THEN 0 ELSE CHOOSE i \in I : \A j \in I : i <= j
Replacement(rules, g) ==
    IF FirstMatch(rules, g) = 0 THEN <<g>> ELSE rules[FirstMatch(rules, g)].handler.by
RECURSIVE RewritePass(_, _)
RewritePass(rules, seq) ==
    IF seq = <<>> THEN <<>>
    ELSE Replacement(rules, Head(seq)) \o RewritePass(rules, Tail(seq))
RECURSIVE Generation(_, _, _)
Generation(rules, seq, k) ==
    IF k = 0 \/ RewritePass(rules, seq) = seq THEN seq
    ELSE Generation(rules, RewritePass(rules, seq), k - 1)
RECURSIVE Stable(_, _, _)
Stable(rules, seq, k) ==
    IF k = 0 THEN FALSE
    ELSE IF RewritePass(rules, seq) = seq THEN TRUE
    ELSE Stable(rules, RewritePass(rules, seq), k - 1)
GlyphsOf(s) == [i \in 1..Len(Symbols(s)) |-> Symbols(s)[i].glyph]
\* the glyphs whose Symbol was given a procedure
ProcGlyphs == {"a"}
ProcsOf(s) == SelectSeq(GlyphsOf(s), LAMBDA g : g \in ProcGlyphs)

\* C12: iterate(axiom, iters) returns, and the current string is then the
\* axiom rewritten generation by generation, each generation being the
\* left-to-right concatenation of the replacements of the occurrences of
\* the one before (the occurrence itself where no rule matches).
C12_SimultaneousRewriting ==
    [][\A t \in StrIds \cup {None} :
        (call'.op = "iterate" /\ call'.axiom # None /\ lsys'.tree = t)
        => /\ err' = "none"
           /\ t # None
           /\ (GlyphsOf(str[t]))' =
                  Generation(lsys.rules, GlyphsOf(str[call'.axiom]), call'.iters)]_vars

\* C13: add_rule without a weight returns and puts the rule at the back of
\* the rules, and one pass of iterate over rules without weights rewrites
\* each occurrence by the first rule of its symbol, in that order, whose
\* handler matches, and copies it when none does.
C13_OrderedFirstMatch ==
    [][/\ (call'.op = "add_rule" /\ call'.p = None)
          => /\ err' = "none"
             /\ lsys'.rules = Append(lsys.rules,
                    [symbol |-> call'.symbol, handler |-> call'.handler, p |-> None])
       /\ \A t \in StrIds \cup {None} :
            (/\ call'.op = "iterate" /\ call'.axiom # None /\ call'.iters = 1
             /\ \A i \in 1..Len(lsys.rules) : lsys.rules[i].p = None
             /\ lsys'.tree = t)
            => /\ err' = "none"
               /\ t # None
               /\ (GlyphsOf(str[t]))' =
                      RewritePass(lsys.rules, GlyphsOf(str[call'.axiom]))]_vars

\* C14: iterate(axiom, iters) with iters >= 1 returns True when one of its
\* passes changes nothing and False when the cap is reached first; when the
\* first pass fires no rule the current string equals the axiom.
C14_FixedPointStops ==
    [][\A t \in StrIds \cup {None} :
        (/\ call'.op = "iterate" /\ call'.axiom # None /\ call'.iters >= 1
         /\ lsys'.tree = t)
        => /\ err' = "none"
           /\ ret' = Stable(lsys.rules, GlyphsOf(str[call'.axiom]), call'.iters)
           /\ RewritePass(lsys.rules, GlyphsOf(str[call'.axiom])) =
                 GlyphsOf(str[call'.axiom])
              => (t # None /\ (GlyphsOf(str[t]))' = GlyphsOf(str[call'.axiom]))]_vars

\* C15: execute() returns, has invoked the procedure of each occurrence of
\* the current string whose symbol has one, once and in order (none when
\* there is no current string), and leaves the current string as it was.
C15_ExecuteInvokesInOrder ==
    [][call'.op = "execute"
       => /\ err' = "none"
          /\ lsys' = lsys /\ str' = str /\ node' = node
          /\ procCalls' = procCalls \o
                (IF lsys.tree = None THEN <<>> ELSE ProcsOf(str[lsys.tree]))]_vars

\* the glyphs and the names registered in a set of symbols
GlyphSet(S) == {s.glyph : s \in S}
NameSet(S) == {s.name : s \in S}

C17_EmptyKeyValueError ==
    [][(call'.op \in {"get", "drop", "contains"} /\ call'.key = "")
       => (err' = "ValueError" /\ alph' = alph)]_vars

\* C18: drop(x) of a registered symbol (x its glyph when one character,
\* else its name) removes that one symbol, returns it and makes the length
\* one less, all other symbols and the other Alphabet unchanged; drop of an
\* x that matches no symbol raises KeyError and changes nothing.
C18_DropRemovesExactlyOne ==
    [][\A a \in AlphIds :
        (call'.op = "drop" /\ call'.obj = a)
        => LET M == IF Len(call'.key) = 1
                    THEN {s \in alph[a] : s.glyph = call'.key}
                    ELSE {s \in alph[a] : s.name = call'.key}
           IN IF M # {}
              THEN /\ err' = "none"
                   /\ ret' \in M
                   /\ alph'[a] = alph[a] \ {ret'}
                   /\ Cardinality(alph'[a]) = Cardinality(alph[a]) - 1
                   /\ \A b \in AlphIds \ {a} : alph'[b] = alph[b]
              ELSE err' = "KeyError" /\ alph' = alph]_vars

\* C18, its case: drop by a name has removed a symbol and left another one.
C18_Witness ==
    /\ call.op = "drop" /\ call.key = "xx" /\ err = "none"
    /\ ret.name = "xx"
    /\ alph[call.obj] # {}
    /\ ret \notin alph[call.obj]

\* C19: add of a symbol whose glyph and whose name are both unused returns
\* in each of its forms, makes the length one more, and makes the symbol a
\* member by its glyph, by its name and by the object returned.
C19_AddUnusedSucceeds ==
    [][\A a \in AlphIds :
        (/\ call'.op = "add" /\ call'.obj = a
         /\ call'.key \notin GlyphSet(alph[a])
         /\ call'.name \notin NameSet(alph[a]))
        => /\ err' = "none"
           /\ Cardinality(alph'[a]) = Cardinality(alph[a]) + 1
           /\ ContainsStr(alph'[a], call'.key)
           /\ ContainsStr(alph'[a], call'.name)
           /\ SetHas(alph'[a], ret')]_vars

C21_SetAlgebraByGlyph ==
    /\ [][call'.op \in SetOps =>
            LET A == GlyphSet(SymbolsOf(call'.obj))
                B == GlyphSet(SymbolsOf(call'.other))
            IN /\ err' = "none"
               /\ Cardinality(ResultSymbols') = Cardinality(GlyphSet(ResultSymbols'))
               /\ call'.op = "and" => GlyphSet(ResultSymbols') = A \cap B
               /\ call'.op = "or" => GlyphSet(ResultSymbols') = A \cup B
               /\ call'.op = "sub" => GlyphSet(ResultSymbols') = A \ B]_vars
    /\ [](\A A, B, C \in {alph[1], alph[2], ResultSymbols} :
            /\ GlyphSet(AlphabetAnd(A, A)) = GlyphSet(A)
            /\ GlyphSet(AlphabetOr(A, A)) = GlyphSet(A)
            /\ GlyphSet(AlphabetAnd(AlphabetAnd(A, B), C)) =
                  GlyphSet(AlphabetAnd(A, AlphabetAnd(B, C)))
            /\ GlyphSet(AlphabetOr(AlphabetOr(A, B), C)) =
                  GlyphSet(AlphabetOr(A, AlphabetOr(B, C))))

\* C21, its case: an operator applied to the Alphabet an operator returned
\* has given a non-empty Alphabet that is not the whole of the other operand.
C21_Witness ==
    /\ call.op \in SetOps
    /\ call.obj = Res
    /\ call.other \in AlphIds
    /\ ResultSymbols # {}
    /\ GlyphSet(ResultSymbols) # GlyphSet(alph[call.other])

\* C22: A & B, A | B and A - B return and leave A and B unchanged; an add
\* or a drop on the Alphabet returned succeeds as on any Alphabet and never
\* changes the symbols of A or B, and an add or a drop on A or B never
\* changes the symbols of the Alphabet returned.
C22_ResultIsIndependent ==
    [][/\ call'.op \in SetOps => (err' = "none" /\ alph' = alph /\ result'.made)
       /\ (call'.op \in {"add", "drop"} /\ call'.obj = Res)
             => (alph' = alph /\ (call'.op = "add" => err' = "none"))
       /\ (call'.op \in {"add", "drop"} /\ call'.obj \in AlphIds /\ result.made)
             => ResultSymbols' = ResultSymbols]_vars

\* C22, its case: a symbol added to the Alphabet returned is in it and in
\* neither operand.
C22_Witness ==
    /\ call.op = "add"
    /\ call.obj = Res
    /\ err = "none"
    /\ SetHas(ResultSymbols, ret)
    /\ \A a \in AlphIds : alph[a] # {} /\ ~SetHas(alph[a], ret)

\* C23: Symbol(glyph) gives a Symbol whose name is the glyph and that has no
\* parameter; Symbol(glyph, name, args) with n names and no types gives a
\* Symbol with that glyph, that name and n parameters.
C23_SymbolConstruction ==
    /\ (call.op = "Symbol" /\ call.name = "" /\ call.args = <<>>)
          => /\ err = "none"
             /\ built.glyph = call.glyph
             /\ built.name = call.glyph
             /\ Len(built.argnames) = 0
    /\ (call.op = "Symbol" /\ call.name # "" /\ call.argtypes = <<>>)
          => /\ err = "none"
             /\ built.glyph = call.glyph
             /\ built.name = call.name
             /\ Len(built.argnames) = Len(call.args)

\* the regular expression the documentation gives for glyph g and the
\* parameter names in names, in pieces: ^g, and for n >= 1 the pieces of the
\* parameters joined by commas between \( and \)
RECURSIVE DocRegexArgs(_)
DocRegexArgs(names) ==
    IF Len(names) = 1 THEN <<"\\s*(?P<", names[1], ">\\w+)">>
    ELSE <<"\\s*(?P<", Head(names), ">\\w+)", ",">> \o DocRegexArgs(Tail(names))
DocRegex(g, names) ==
    IF names = <<>> THEN <<"^", g>>
    ELSE <<"^", g, "\\(">> \o DocRegexArgs(names) \o <<"\\)">>

\* C24: the regex of a Symbol is the documented expression over its glyph
\* and the parameter names it was declared with, in their order, and a
\* second read gives what the first gave.
C24_RegexOfDeclaredNames ==
    /\ [](call.op = "regex" => ret = DocRegex(built.glyph, built.declared))
    /\ [][(call.op = "regex" /\ call'.op = "regex") => ret' = ret]_vars

\* C25: parsing a text against an Alphabet, by String(text, alphabet) or by
\* parse, succeeds and leaves a String holding the occurrences of the text
\* (one occurrence for "p(3,4.5,adult)").
C25_ParseText ==
    ((call.op = "String" /\ call.key = "text" /\ err # "TypeError") \/ call.op = "parse")
        => /\ err = "none"
           /\ str[call.obj].len = 1

\* C26: a String built from another String s, whatever the copy mode, has
\* the length of s, the occurrences of s in their order, and the Alphabet of
\* s, whether or not an alphabet argument was given.
C26_StringFromString ==
    (call.op = "String" /\ call.other # None)
        => /\ err = "none"
           /\ str[call.obj].len = str[call.other].len
           /\ Symbols(str[call.obj]) = Symbols(str[call.other])
           /\ str[call.obj].alphabet = str[call.other].alphabet

\* the nodes a String reaches from its first node
NodesOf(s) == {Chain(s)[i] : i \in 1..Len(Chain(s))}

RECURSIVE LinkWalk(_, _, _)
LinkWalk(N, x, k) ==
    IF x = None \/ k = 0 THEN <<>> ELSE <<x>> \o LinkWalk(N, N[x].right, k - 1)
Order(N, n) ==
    LinkWalk(N, CHOOSE x \in ChainOf(N, n) : N[x].left = None, Cardinality(LinkIds))

\* the order of a chain after s is placed on the side where of n, and after
\* the neighbour of n on the side where is taken out
Pos(seq, x) == CHOOSE i \in 1..Len(seq) : seq[i] = x
WithSibling(seq, n, s, where) ==
    IF where = "right"
    THEN SubSeq(seq, 1, Pos(seq, n)) \o <<s>> \o SubSeq(seq, Pos(seq, n) + 1, Len(seq))
    ELSE SubSeq(seq, 1, Pos(seq, n) - 1) \o <<s>> \o SubSeq(seq, Pos(seq, n), Len(seq))
WithoutSibling(seq, n, where) ==
    IF where = "right"
    THEN SubSeq(seq, 1, Pos(seq, n)) \o SubSeq(seq, Pos(seq, n) + 2, Len(seq))
    ELSE SubSeq(seq, 1, Pos(seq, n) - 2) \o SubSeq(seq, Pos(seq, n), Len(seq))
Neighbour(N, n, where) == IF where = "right" THEN N[n].right ELSE N[n].left

\* C30: on a well-formed chain, n.add_sibling(s, where) with s unlinked puts
\* s next to n on that side, the chain stays well formed and the other nodes
\* keep their order; n.drop_sibling(where) returns False and changes nothing
\* when n has no neighbour there, else returns True and takes exactly that
\* neighbour out of the chain of n, which stays well formed; another where
\* raises ValueError and changes nothing.
C30_SiblingLinks ==
    [][\A n \in LinkIds :
         (call'.obj = n /\ WellFormed(node, n) /\ call'.op \in {"add_sibling", "drop_sibling"})
           => /\ call'.key \notin {"left", "right"}
                   => (err' = "ValueError" /\ node' = node)
              /\ \A s \in LinkIds :
                   (/\ call'.op = "add_sibling"
                    /\ call'.key \in {"left", "right"}
                    /\ call'.other = s
                    /\ Unlinked(node, s)
                    /\ s \notin ChainOf(node, n))
                   => /\ err' = "none"
                      /\ WellFormed(node', n)
                      /\ Order(node', n) = WithSibling(Order(node, n), n, s, call'.key)
                      /\ \A x \in LinkIds \ (ChainOf(node, n) \cup {s}) : node'[x] = node[x]
              /\ (call'.op = "drop_sibling" /\ call'.key \in {"left", "right"})
                   => /\ err' = "none"
                      /\ IF Neighbour(node, n, call'.key) = None
                         THEN ret' = FALSE /\ node' = node
                         ELSE /\ ret' = TRUE
                              /\ WellFormed(node', n)
                              /\ Order(node', n) = WithoutSibling(Order(node, n), n, call'.key)
                              /\ \A x \in LinkIds \ ChainOf(node, n) : node'[x] = node[x]]_vars

\* C30: drop_sibling has returned True and joined its node to the node
\* beyond the dropped one
C30_Witness ==
    /\ call.op = "drop_sibling"
    /\ err = "none"
    /\ ret = TRUE
    /\ call.key = "right"
    /\ node[call.obj].right # None
    /\ node[node[call.obj].right].left = call.obj
    /\ WellFormed(node, call.obj)

=============================================================================
